---- MODULE Spec2Model ----
(***************************************************************************)
(* A model of the text-degradation engine of deafAI (class DeafSimulator   *)
(* of src/src/deaf-simulator.ts).                                          *)
(*                                                                         *)
(* A string is a sequence of one-character strings.  Math.random() is a    *)
(* nondeterministic choice: every value a draw can take is a successor.    *)
(* The thresholds `roll` is compared with are integers, so a real roll in  *)
(* [0,100) is represented by its integer part 0..99.                       *)
(***************************************************************************)
EXTENDS Integers, Sequences, FiniteSets, TLC

(***************************************************************************)
(* Bounds of the model.                                                    *)
(***************************************************************************)
\* config.level is drawn from (1 - LevelSlack) .. (10 + LevelSlack)
LevelSlack == 1
\* an input is made of at most MaxPieces pieces (words and whitespace)
MaxPieces == 3
\* a long input has at most MaxTokens tokens
MaxTokens == 40

(***************************************************************************)
(* Characters.                                                             *)
(***************************************************************************)
UpperLetters ==
    <<"A", "B", "C", "D", "E", "F", "G", "H", "I", "J", "K", "L", "M",
      "N", "O", "P", "Q", "R", "S", "T", "U", "V", "W", "X", "Y", "Z">>

LowerLetters ==
    <<"a", "b", "c", "d", "e", "f", "g", "h", "i", "j", "k", "l", "m",
      "n", "o", "p", "q", "r", "s", "t", "u", "v", "w", "x", "y", "z">>

\* the character class \s (the members the inputs use)
Whitespace == {" ", "\t"}

\* /^[A-Z]/ on one character
IsUpperAZ(c) == \E i \in DOMAIN UpperLetters : UpperLetters[i] = c

charToLowerCase(c) ==
    IF \E i \in DOMAIN UpperLetters : UpperLetters[i] = c
    THEN LowerLetters[CHOOSE i \in DOMAIN UpperLetters : UpperLetters[i] = c]
    ELSE c

charToUpperCase(c) ==
    IF \E i \in DOMAIN LowerLetters : LowerLetters[i] = c
    THEN UpperLetters[CHOOSE i \in DOMAIN LowerLetters : LowerLetters[i] = c]
    ELSE c

\* String.prototype.toLowerCase / toUpperCase
toLowerCase(s) == [i \in DOMAIN s |-> charToLowerCase(s[i])]

toUpperCase(s) == [i \in DOMAIN s |-> charToUpperCase(s[i])]

\* String.prototype.startsWith
StartsWith(s, p) == Len(s) >= Len(p) /\ SubSeq(s, 1, Len(p)) = p

(***************************************************************************)
(* The engine's configuration.                                             *)
(***************************************************************************)
\* type Language
Languages == {"en", "it", "agnostic"}

\* a language tag outside the type, as an unvalidated caller can pass it
UnknownLanguage == "fr"

\* ClampLevel without the lower bound: Math.min(10, config.level)
ClampLevelNoFloor(lv) == IF lv < 10 THEN lv ELSE 10

\* this.level = Math.max(1, Math.min(10, config.level))
ClampLevel(lv) ==
    LET capped == IF lv < 10 THEN lv ELSE 10
    IN  IF capped > 1 THEN capped ELSE 1

(***************************************************************************)
(* decideAction.                                                           *)
(***************************************************************************)
\* recognitionRates with the digits of level 4 exchanged (87 for 78)
recognitionRatesTypo(lv) ==
    CASE lv = 1 -> 97
      [] lv = 2 -> 92
      [] lv = 3 -> 85
      [] lv = 4 -> 87
      [] lv = 5 -> 70
      [] lv = 6 -> 60
      [] lv = 7 -> 45
      [] lv = 8 -> 30
      [] lv = 9 -> 18
      [] lv = 10 -> 8
      [] OTHER -> 70

\* recognitionRates[this.level] || 70
recognitionRates(lv) ==
    CASE lv = 1 -> 97
      [] lv = 2 -> 92
      [] lv = 3 -> 85
      [] lv = 4 -> 78
      [] lv = 5 -> 70
      [] lv = 6 -> 60
      [] lv = 7 -> 45
      [] lv = 8 -> 30
      [] lv = 9 -> 18
      [] lv = 10 -> 8
      [] OTHER -> 70

\* the alternatives of the regular expression of isImportant; the source
\* file spells the seventh with the two characters U+221A U+00A9 after
\* "perch", written here by their code points
QuestionPrefixes ==
    { <<"w", "h", "a", "t">>, <<"w", "h", "o">>, <<"w", "h", "y">>,
      <<"w", "h", "e", "n">>, <<"w", "h", "e", "r", "e">>, <<"h", "o", "w">>,
      <<"c", "o", "s", "a">>, <<"c", "h", "i">>,
      <<"p", "e", "r", "c", "h", "U+221A", "U+00A9">>,
      <<"q", "u", "a", "n", "d", "o">>, <<"d", "o", "v", "e">>,
      <<"c", "o", "m", "e">> }

\* the alternatives a mode-specific isImportant would try
EnglishPrefixes ==
    { <<"w", "h", "a", "t">>, <<"w", "h", "o">>, <<"w", "h", "y">>,
      <<"w", "h", "e", "n">>, <<"w", "h", "e", "r", "e">>, <<"h", "o", "w">> }

ItalianPrefixes ==
    { <<"c", "o", "s", "a">>, <<"c", "h", "i">>,
      <<"q", "u", "a", "n", "d", "o">>, <<"d", "o", "v", "e">>,
      <<"c", "o", "m", "e">> }

\* isImportant trying only the question words of the engine's language
isImportantActiveLanguage(word, lang) ==
    \/ Len(word) > 5
    \/ (Len(word) > 0 /\ IsUpperAZ(word[1]))
    \/ \E p \in (CASE lang = "en" -> EnglishPrefixes
                    [] lang = "it" -> ItalianPrefixes
                    [] OTHER -> EnglishPrefixes \cup ItalianPrefixes) :
           StartsWith(toLowerCase(word), p)

\* word.length > 5 || /^[A-Z]/.test(word) || /^(what|...|come)/i.test(word)
\* (this.language is not read)
isImportant(word, lang) ==
    \/ Len(word) > 5
    \/ (Len(word) > 0 /\ IsUpperAZ(word[1]))
    \/ \E p \in QuestionPrefixes : StartsWith(toLowerCase(word), p)

importanceBonus(word, lang) == IF isImportant(word, lang) THEN 5 ELSE 0

keepThreshold(lv, word, lang) ==
    LET sum == recognitionRates(lv) + importanceBonus(word, lang)
    IN  IF sum < 98 THEN sum ELSE 98

\* garbleRate with the first boundary off by one (level < 2)
garbleRateOffByOne(lv) == IF lv < 2 THEN 2 ELSE IF lv >= 9 THEN 5 ELSE 15

garbleRate(lv) == IF lv <= 2 THEN 2 ELSE IF lv >= 9 THEN 5 ELSE 15

partialRate(lv) == IF lv <= 2 THEN 1 ELSE IF lv >= 9 THEN 3 ELSE 10

\* keepThreshold, garbleThreshold and partialThreshold of decideAction(word)
Thresholds(lv, lang, word) ==
    LET keepT == keepThreshold(lv, word, lang)
        garbleT == keepT + garbleRate(lv)
        partialT == garbleT + partialRate(lv)
    IN  [keep |-> keepT, garble |-> garbleT, partial |-> partialT]

\* the chain of comparisons that ends decideAction
ActionOf(r, th) ==
    IF r < th.keep THEN "keep"
    ELSE IF r < th.garble THEN "garble"
    ELSE IF r < th.partial THEN "partial"
    ELSE "drop"

\* the integer part of Math.random() * 100
Rolls == 0..99

\* the values of the type of `action`
Actions == {"keep", "garble", "partial", "drop"}

\* decideAction(word) of an engine of level lv and language lang whose
\* draw is r
decideAction(lv, lang, word, r) == ActionOf(r, Thresholds(lv, lang, word))

\* the values decideAction(word) can return, one for every roll it can draw
DecidedActions(lv, lang, word) ==
    LET th == Thresholds(lv, lang, word)
    IN  { ActionOf(r, th) : r \in Rolls }

(***************************************************************************)
(* The confusion tables (getSimilarCharsMap): a key and every replacement  *)
(* is a string; a key the table lacks has the empty list.                  *)
(***************************************************************************)
agnosticMap(key) ==
    CASE key = <<"a">> -> << <<"e">>, <<"o">> >>
      [] key = <<"e">> -> << <<"i">>, <<"a">> >>
      [] key = <<"i">> -> << <<"e">>, <<"y">> >>
      [] key = <<"o">> -> << <<"u">>, <<"a">> >>
      [] key = <<"u">> -> << <<"o">>, <<"a">> >>
      [] key = <<"b">> -> << <<"p">>, <<"d">> >>
      [] key = <<"c">> -> << <<"k">>, <<"s">> >>
      [] key = <<"d">> -> << <<"t">>, <<"b">> >>
      [] key = <<"f">> -> << <<"v">>, <<"s">> >>
      [] key = <<"g">> -> << <<"k">>, <<"j">> >>
      [] key = <<"h">> -> << <<>>, <<"f">> >>
      [] key = <<"j">> -> << <<"g">>, <<"y">> >>
      [] key = <<"k">> -> << <<"c">>, <<"g">> >>
      [] key = <<"l">> -> << <<"r">>, <<"n">> >>
      [] key = <<"m">> -> << <<"n">>, <<"b">> >>
      [] key = <<"n">> -> << <<"m">>, <<"l">> >>
      [] key = <<"p">> -> << <<"b">>, <<"t">> >>
      [] key = <<"q">> -> << <<"k">>, <<"g">> >>
      [] key = <<"r">> -> << <<"l">>, <<"w">> >>
      [] key = <<"s">> -> << <<"z">>, <<"c">> >>
      [] key = <<"t">> -> << <<"d">>, <<"p">> >>
      [] key = <<"v">> -> << <<"f">>, <<"b">> >>
      [] key = <<"w">> -> << <<"v">>, <<"u">> >>
      [] key = <<"x">> -> << <<"s">>, <<"z">> >>
      [] key = <<"y">> -> << <<"i">>, <<"j">> >>
      [] key = <<"z">> -> << <<"s">>, <<"j">> >>
      [] OTHER -> <<>>

englishMap(key) ==
    CASE key = <<"a">> -> << <<"e">>, <<"u">>, <<"o">> >>
      [] key = <<"e">> -> << <<"i">>, <<"a">>, <<"u">> >>
      [] key = <<"i">> -> << <<"e">>, <<"y">>, <<"u">> >>
      [] key = <<"o">> -> << <<"u">>, <<"a">>, <<"o", "o">> >>
      [] key = <<"u">> -> << <<"o">>, <<"a">>, <<"o", "o">> >>
      [] key = <<"b">> -> << <<"p">>, <<"d">>, <<"v">> >>
      [] key = <<"c">> -> << <<"k">>, <<"s">>, <<"g">> >>
      [] key = <<"d">> -> << <<"t">>, <<"b">>, <<"g">> >>
      [] key = <<"f">> -> << <<"v">>, <<"t", "h">>, <<"s">> >>
      [] key = <<"g">> -> << <<"k">>, <<"j">>, <<"d">> >>
      [] key = <<"h">> -> << <<>>, <<"f">>, <<"c", "h">> >>
      [] key = <<"j">> -> << <<"g">>, <<"c", "h">>, <<"y">> >>
      [] key = <<"k">> -> << <<"c">>, <<"g">>, <<"q">> >>
      [] key = <<"l">> -> << <<"r">>, <<"w">>, <<"n">> >>
      [] key = <<"m">> -> << <<"n">>, <<"b">>, <<"w">> >>
      [] key = <<"n">> -> << <<"m">>, <<"n", "g">>, <<"l">> >>
      [] key = <<"p">> -> << <<"b">>, <<"t">>, <<"f">> >>
      [] key = <<"q">> -> << <<"k">>, <<"g">>, <<"c">> >>
      [] key = <<"r">> -> << <<"l">>, <<"w">>, <<"y">> >>
      [] key = <<"s">> -> << <<"z">>, <<"s", "h">>, <<"t", "h">> >>
      [] key = <<"t">> -> << <<"d">>, <<"t", "h">>, <<"p">> >>
      [] key = <<"v">> -> << <<"f">>, <<"b">>, <<"w">> >>
      [] key = <<"w">> -> << <<"v">>, <<"r">>, <<"u">> >>
      [] key = <<"x">> -> << <<"s">>, <<"z">>, <<"k", "s">> >>
      [] key = <<"y">> -> << <<"i">>, <<"j">>, <<"e">> >>
      [] key = <<"z">> -> << <<"s">>, <<"t", "h">>, <<"j">> >>
      [] OTHER -> <<>>

italianMap(key) ==
    CASE key = <<"a">> -> << <<"e">>, <<"o">> >>
      [] key = <<"e">> -> << <<"i">>, <<"a">> >>
      [] key = <<"i">> -> << <<"e">>, <<"u">> >>
      [] key = <<"o">> -> << <<"u">>, <<"a">> >>
      [] key = <<"u">> -> << <<"o">>, <<"i">> >>
      [] key = <<"b">> -> << <<"p">>, <<"v">> >>
      [] key = <<"c">> -> << <<"g">>, <<"c", "h">>, <<"k">> >>
      [] key = <<"d">> -> << <<"t">>, <<"b">> >>
      [] key = <<"f">> -> << <<"v">>, <<"s">> >>
      [] key = <<"g">> -> << <<"c">>, <<"g", "h">>, <<"j">> >>
      [] key = <<"h">> -> << <<>> >>
      [] key = <<"l">> -> << <<"r">>, <<"g", "l">> >>
      [] key = <<"m">> -> << <<"n">>, <<"m", "m">> >>
      [] key = <<"n">> -> << <<"m">>, <<"g", "n">>, <<"n", "n">> >>
      [] key = <<"p">> -> << <<"b">>, <<"p", "p">> >>
      [] key = <<"q">> -> << <<"c">>, <<"k">> >>
      [] key = <<"r">> -> << <<"l">>, <<"r", "r">> >>
      [] key = <<"s">> -> << <<"z">>, <<"s", "s">>, <<"s", "c">> >>
      [] key = <<"t">> -> << <<"d">>, <<"t", "t">> >>
      [] key = <<"v">> -> << <<"f">>, <<"b">> >>
      [] key = <<"z">> -> << <<"s">>, <<"z", "z">>, <<"t", "s">> >>
      [] key = <<"c", "c">> -> << <<"c">>, <<"g", "g">> >>
      [] key = <<"g", "g">> -> << <<"g">>, <<"c", "c">> >>
      [] key = <<"s", "s">> -> << <<"s">>, <<"z", "z">> >>
      [] key = <<"z", "z">> -> << <<"z">>, <<"s", "s">> >>
      [] key = <<"t", "t">> -> << <<"t">>, <<"d", "d">> >>
      [] key = <<"d", "d">> -> << <<"d">>, <<"t", "t">> >>
      [] key = <<"p", "p">> -> << <<"p">>, <<"b", "b">> >>
      [] key = <<"b", "b">> -> << <<"b">>, <<"p", "p">> >>
      [] key = <<"r", "r">> -> << <<"r">>, <<"l", "l">> >>
      [] key = <<"l", "l">> -> << <<"l">>, <<"r", "r">> >>
      [] key = <<"m", "m">> -> << <<"m">>, <<"n", "n">> >>
      [] key = <<"n", "n">> -> << <<"n">>, <<"m", "m">> >>
      [] key = <<"g", "l">> -> << <<"l">>, <<"g", "l", "i">> >>
      [] key = <<"g", "n">> -> << <<"n">>, <<"g", "n", "i">> >>
      [] key = <<"s", "c">> -> << <<"s">>, <<"c">> >>
      [] key = <<"c", "h">> -> << <<"c">>, <<"k">> >>
      [] key = <<"g", "h">> -> << <<"g">>, <<"c">> >>
      [] OTHER -> <<>>

getSimilarCharsMap(lang, key) ==
    CASE lang = "en" -> englishMap(key)
      [] lang = "it" -> italianMap(key)
      [] OTHER -> agnosticMap(key)

(***************************************************************************)
(* getSimilarChar: `char` is one element of the working array of           *)
(* garbleWord, pick the index Math.floor(Math.random() * length) + 1.      *)
(***************************************************************************)
getSimilarChar(char, lang, pick) ==
    LET replacements == getSimilarCharsMap(lang, toLowerCase(char))
    IN  IF Len(replacements) = 0 THEN char
        ELSE LET replacement == replacements[pick]
             IN  IF replacement = <<>> THEN char
                 ELSE IF char = toUpperCase(char)
                      THEN toUpperCase(replacement)
                      ELSE replacement

\* the draws getSimilarChar can make for `char`
Picks(char, lang) ==
    LET n == Len(getSimilarCharsMap(lang, toLowerCase(char)))
    IN  IF n = 0 THEN {1} ELSE 1..n

(***************************************************************************)
(* garbleWord.                                                             *)
(***************************************************************************)
\* the branch the draw `action` selects: < 0.4, < 0.7, otherwise
EditActions == {"replace", "swap", "remove"}

\* word.split('')
SplitChars(word) == [i \in DOMAIN word |-> <<word[i]>>]

RECURSIVE JoinChars(_)
\* chars.join('')
JoinChars(chars) ==
    IF chars = <<>> THEN <<>> ELSE Head(chars) \o JoinChars(Tail(chars))

\* a splice that removes the element at pos and its right neighbour
SpliceTwo(chars, pos) ==
    SubSeq(chars, 1, pos - 1) \o SubSeq(chars, pos + 2, Len(chars))

\* chars.splice(pos, 1), positions counted from 1
Splice(chars, pos) ==
    SubSeq(chars, 1, pos - 1) \o SubSeq(chars, pos + 1, Len(chars))

\* numChanges with the level taken over 10
numChangesOverTen(word, lv) == (Len(word) * lv + 9) \div 10

\* Math.ceil(word.length * (this.level / 20))
numChanges(word, lv) == (Len(word) * lv + 19) \div 20

\* one iteration of the loop of garbleWord, positions counted from 1
ApplyEdit(chars, lang, pos, action, pick) ==
    CASE action = "replace" ->
            [chars EXCEPT ![pos] = getSimilarChar(chars[pos], lang, pick)]
      [] action = "swap" ->
            IF pos < Len(chars)
            THEN [chars EXCEPT ![pos] = chars[pos + 1], ![pos + 1] = chars[pos]]
            ELSE chars
      [] OTHER -> Splice(chars, pos)

\* every outcome of one iteration over its three draws
EditResults(chars, lang) ==
    UNION { { ApplyEdit(chars, lang, pos, a, k) :
                a \in EditActions, k \in Picks(chars[pos], lang) } :
            pos \in 1..Len(chars) }

RECURSIVE GarbleFrom(_, _, _)
\* the working arrays left after `n` more iterations
GarbleFrom(chars, lang, n) ==
    IF n = 0 \/ Len(chars) = 0 THEN {chars}
    ELSE UNION { GarbleFrom(c, lang, n - 1) : c \in EditResults(chars, lang) }

\* every result garbleWord can return for `word`
garbleWord(word, lv, lang) ==
    IF Len(word) <= 2 THEN {word}
    ELSE { JoinChars(c) :
             c \in GarbleFrom(SplitChars(word), lang, numChanges(word, lv)) }

(***************************************************************************)
(* partialWord.                                                            *)
(***************************************************************************)
Ellipsis == <<".", ".", ".">>

\* what word[0] + '...' concatenates when word is empty
UndefinedText == <<"u", "n", "d", "e", "f", "i", "n", "e", "d">>

\* keepLength with the ratio 1 - (level - 1) / 15
keepLengthOneLevelLess(word, lv) ==
    LET k == (Len(word) * (16 - lv)) \div 15
    IN  IF k > 1 THEN k ELSE 1

\* Math.max(1, Math.floor(word.length * (1 - this.level / 15)))
keepLength(word, lv) ==
    LET k == (Len(word) * (15 - lv)) \div 15
    IN  IF k > 1 THEN k ELSE 1

\* atStart: the draw Math.random() < 0.6
partialWord(word, lv, atStart) ==
    IF Len(word) <= 3
    THEN (IF Len(word) = 0 THEN UndefinedText ELSE <<word[1]>>) \o Ellipsis
    ELSE IF atStart
         THEN SubSeq(word, 1, keepLength(word, lv)) \o Ellipsis
         ELSE Ellipsis \o
              SubSeq(word, Len(word) - keepLength(word, lv) + 1, Len(word))

(***************************************************************************)
(* The string operations of simulate.                                      *)
(***************************************************************************)
Placeholder == <<"[", ".", ".", ".", "]">>

\* s.replace(/\s+/g, ' '): of every run of whitespace the last character
\* stays, as a space
Collapse(s) ==
    LET marked == [j \in DOMAIN s |->
                       [char |-> IF s[j] \in Whitespace THEN " " ELSE s[j],
                        gone |-> /\ s[j] \in Whitespace
                                 /\ j < Len(s)
                                 /\ s[j + 1] \in Whitespace]]
        left == SelectSeq(marked, LAMBDA m : ~m.gone)
    IN  [j \in DOMAIN left |-> left[j].char]

\* s.split(/\s+/): the separators are the runs of whitespace of s, one
\* character each once collapsed, and the tokens are what lies between them
Split(s) ==
    LET c == Collapse(s)
        seps == SelectSeq([j \in DOMAIN c |-> j], LAMBDA j : c[j] \in Whitespace)
        n == Len(seps) + 1
    IN  [t \in 1..n |->
            SubSeq(c,
                   IF t = 1 THEN 1 ELSE seps[t - 1] + 1,
                   IF t = n THEN Len(c) ELSE seps[t] - 1)]

RECURSIVE Join(_)
\* ws.join(' '), the two halves of ws joined first
Join(ws) ==
    IF ws = <<>> THEN <<>>
    ELSE IF Len(ws) = 1 THEN ws[1]
    ELSE LET half == Len(ws) \div 2
         IN  Join(SubSeq(ws, 1, half)) \o <<" ">>
                 \o Join(SubSeq(ws, half + 1, Len(ws)))

\* s without the whitespace it begins with
TrimStart(s) ==
    LET rest == { j \in DOMAIN s : s[j] \notin Whitespace }
    IN  IF rest = {} THEN <<>>
        ELSE SubSeq(s, CHOOSE j \in rest : \A k \in rest : j <= k, Len(s))

\* s without the whitespace it ends with
TrimEnd(s) ==
    LET rest == { j \in DOMAIN s : s[j] \notin Whitespace }
    IN  IF rest = {} THEN <<>>
        ELSE SubSeq(s, 1, CHOOSE j \in rest : \A k \in rest : j >= k)

\* a trim that leaves the string as it is
TrimNothing(s) == s

\* s.trim()
Trim(s) == TrimEnd(TrimStart(s))

\* ws.filter(w => w !== '[...]').length
CountNonPlaceholder(ws) ==
    Cardinality({ i \in DOMAIN ws : ws[i] # Placeholder })

(***************************************************************************)
(* The arithmetic of lossPercentage.  A Number is an IEEE 754 double: a    *)
(* non-negative one is written [bits, exp], the value 0.b1 b2 b3 ... times *)
(* 2^exp with b1 = 1 and at most DoubleBits bits; zero has no bits.  Every *)
(* operation rounds its exact result to the nearest double, ties to even.  *)
(* Bits are handled ChunkBits at a time where a number is computed from    *)
(* them.                                                                   *)
(***************************************************************************)
DoubleBits == 53

ChunkBits == 18

Zero == [bits |-> <<>>, exp |-> 0]

One == [bits |-> <<1>>, exp |-> 1]

Zeros(n) == [j \in 1..n |-> 0]

\* the positions of bs that hold the bit b
Positions(bs, b) == { j \in DOMAIN bs : bs[j] = b }

\* the greatest and the least member of a non-empty set of positions
Last(ps) == CHOOSE j \in ps : \A k \in ps : j >= k

First(ps) == CHOOSE j \in ps : \A k \in ps : j <= k

\* the bits of the number one above that of bs, of the same length; all
\* zeros when it does not fit
Increment(bs) ==
    IF Positions(bs, 0) = {} THEN Zeros(Len(bs))
    ELSE LET p == Last(Positions(bs, 0))
         IN  [j \in DOMAIN bs |-> IF j < p THEN bs[j] ELSE IF j = p THEN 1 ELSE 0]

\* the nearest double to 0.bs times 2^e, for bs of any length with bs[1] = 1
RoundToDouble(bs, e) ==
    IF Len(bs) <= DoubleBits THEN [bits |-> bs, exp |-> e]
    ELSE LET head == SubSeq(bs, 1, DoubleBits)
             rest == SubSeq(bs, DoubleBits + 1, Len(bs))
             up   == /\ rest[1] = 1
                     /\ \/ head[DoubleBits] = 1
                        \/ \E j \in 2..Len(rest) : rest[j] = 1
             inc  == Increment(head)
         IN  IF ~up THEN [bits |-> head, exp |-> e]
             ELSE IF inc[1] = 0
                  THEN [bits |-> <<1>> \o Zeros(DoubleBits - 1), exp |-> e + 1]
                  ELSE [bits |-> inc, exp |-> e]

\* 0.bs times 2^e without the leading zero bits of bs
StripZeros(bs, e) ==
    IF Positions(bs, 1) = {} THEN Zero
    ELSE LET p == First(Positions(bs, 1))
         IN  [bits |-> SubSeq(bs, p, Len(bs)), exp |-> e - (p - 1)]

RECURSIVE LeadingZeros(_, _)
\* how many zero bits the binary fraction of r / n begins with (0 < r < n)
LeadingZeros(r, n) == IF 2 * r >= n THEN 0 ELSE 1 + LeadingZeros(2 * r, n)

RECURSIVE PowerOfTwoMod(_, _)
\* 2^e modulo n, by squaring
PowerOfTwoMod(e, n) ==
    IF e = 0 THEN 1 % n
    ELSE LET h == PowerOfTwoMod(e \div 2, n)
         IN  (((h * h) % n) * (IF e % 2 = 1 THEN 2 ELSE 1)) % n

\* the first `count` bits of the binary fraction of r / n (0 <= r < n), and
\* one more bit that is 1 when the rest of the fraction is not zero: bit j
\* is the quotient of twice the remainder left after j - 1 bits
FractionBits(r, n, count) ==
    [j \in 1..count |-> (2 * ((r * PowerOfTwoMod(j - 1, n)) % n)) \div n]
        \o (IF (r * PowerOfTwoMod(count, n)) % n = 0 THEN <<>> ELSE <<1>>)

\* k / n for 0 <= k <= n and n > 0
Divide(k, n) ==
    IF k = 0 THEN Zero
    ELSE IF k = n THEN One
    ELSE LET z == LeadingZeros(k, n)
         IN  RoundToDouble(FractionBits((k * 2^z) % n, n, DoubleBits + 1), -z)

\* the bits of 1 - 0.fs, for fs with a 1 in it: the lowest 1 and the zeros
\* below it stay, the bits above it flip
Complement(fs) ==
    LET p == Last(Positions(fs, 1))
    IN  [j \in DOMAIN fs |-> IF j < p THEN 1 - fs[j] ELSE fs[j]]

\* 1 - x for 0 <= x <= 1
OneMinus(x) ==
    IF x = Zero THEN One
    ELSE IF x = One THEN Zero
    ELSE LET diff == StripZeros(Complement(Zeros(-x.exp) \o x.bits), 0)
         IN  RoundToDouble(diff.bits, diff.exp)

\* 1 + x for 0 <= x <= 1
OnePlus(x) ==
    IF x = Zero THEN One
    ELSE IF x = One THEN [bits |-> <<1>>, exp |-> 2]
    ELSE RoundToDouble(<<1>> \o Zeros(-x.exp) \o x.bits, 1)

RECURSIVE BitsToNat(_)
\* the number whose binary digits are bs (at most 30 of them)
BitsToNat(bs) ==
    IF bs = <<>> THEN 0
    ELSE IF Len(bs) = 1 THEN bs[1]
    ELSE LET half == Len(bs) \div 2
         IN  BitsToNat(SubSeq(bs, 1, half)) * 2^(Len(bs) - half)
                 + BitsToNat(SubSeq(bs, half + 1, Len(bs)))

\* the w low binary digits of v
NatToBits(v, w) == [j \in 1..w |-> (v \div 2^(w - j)) % 2]

RECURSIVE NatBits(_)
\* the binary digits of c, none for 0
NatBits(c) == IF c = 0 THEN <<>> ELSE Append(NatBits(c \div 2), c % 2)

RECURSIVE TimesBits(_, _, _)
\* the binary digits of c times the number whose digits are bs, plus carry,
\* the low ChunkBits digits of bs multiplied first
TimesBits(bs, c, carry) ==
    IF bs = <<>> THEN NatBits(carry)
    ELSE LET w == IF Len(bs) < ChunkBits THEN Len(bs) ELSE ChunkBits
             v == BitsToNat(SubSeq(bs, Len(bs) - w + 1, Len(bs))) * c + carry
         IN  TimesBits(SubSeq(bs, 1, Len(bs) - w), c, v \div 2^w)
                 \o NatToBits(v % 2^w, w)

\* x * c for an integer c from 1 to 1000
Times(x, c) ==
    IF x = Zero THEN Zero
    ELSE LET prod == TimesBits(x.bits, c, 0)
         IN  RoundToDouble(prod, x.exp + Len(prod) - Len(x.bits))

\* Math.round(x) for 0 <= x < 2^30: the integer part, plus one when the
\* first bit after the point is set (a half rounds up)
MathRound(x) ==
    IF x = Zero \/ x.exp < 0 THEN 0
    ELSE BitsToNat([j \in 1..x.exp |-> IF j <= Len(x.bits) THEN x.bits[j] ELSE 0])
         + (IF x.exp < Len(x.bits) THEN x.bits[x.exp + 1] ELSE 0)

\* degradedWords.join(' ').replace(/\s+/g, ' ').trim()
Degraded(degradedWords) == Trim(Collapse(Join(degradedWords)))

\* LossPercentage with the sign of the ratio slipped: (1 + kept / words.length)
LossPercentagePlus(ws, degraded) ==
    LET kept == CountNonPlaceholder(Split(degraded))
        loss == IF Len(ws) > 0
                THEN MathRound(Times(OnePlus(Divide(kept, Len(ws))), 100))
                ELSE 0
    IN  IF loss > 0 THEN loss ELSE 0

\* Math.max(0, words.length > 0 ? Math.round((1 - kept / words.length) * 100) : 0);
\* with more tokens kept than words the difference is negative and the
\* maximum is 0
LossPercentage(ws, degraded) ==
    LET kept == CountNonPlaceholder(Split(degraded))
        loss == IF Len(ws) > 0 /\ kept <= Len(ws)
                THEN MathRound(Times(OneMinus(Divide(kept, Len(ws))), 100))
                ELSE 0
    IN  IF loss > 0 THEN loss ELSE 0

(***************************************************************************)
(* The inputs: every concatenation of at most MaxPieces pieces in which    *)
(* no two words are adjacent, and the input that is the text of the        *)
(* placeholder.                                                            *)
(***************************************************************************)
WordPieces == { <<"2", "4", "h">> }

SpacePieces == { <<" ">> }

Pieces == WordPieces \cup SpacePieces

PieceSeqs ==
    { ps \in UNION { [1..n -> Pieces] : n \in 0..MaxPieces } :
        \A i \in 1..(Len(ps) - 1) :
            ~(ps[i] \in WordPieces /\ ps[i + 1] \in WordPieces) }

Inputs == { JoinChars(ps) : ps \in PieceSeqs } \cup { Placeholder }

\* the inputs of fewer than MaxPieces pieces
ShortInputs ==
    { JoinChars(ps) : ps \in { qs \in PieceSeqs : Len(qs) < MaxPieces } }
        \cup { Placeholder }

\* the long inputs: up to MaxTokens times the token 'a', joined by single
\* spaces
LongInputs ==
    { Join([j \in 1..n |-> <<"a">>]) : n \in 1..MaxTokens }

\* the tokens decideAction is probed with
ProbeWords ==
    WordPieces \cup
    { <<>>, Placeholder, <<"h", "i">>, <<"d", "o", "v", "e">>, <<"w", "h", "o">>,
      <<"W", "h", "o">>, <<"c", "a", "t">>,
      <<"C", "O", "M", "E">>, <<"c", "h", "i">>, <<"H", "i">>,
      <<"p", "a", "l", "l", "o", "n", "e">> }

\* the tokens garbleWord is called with
GarbleWords ==
    { <<>>, <<"h", "i">>, <<"2", "4", "h">>, <<"C", "h", "e">>,
      <<"g", "l", "i">>, <<"a", "l", "l", "a">> }

RawLevels == (1 - LevelSlack)..(10 + LevelSlack)

\* a placeholder pushed for a dropped token from level 6 on
pushesPlaceholderFromSix(lv, emit) == lv >= 6 /\ emit

\* this.level >= 7 && Math.random() < 0.3, where emit is the outcome of the
\* comparison of the draw
pushesPlaceholder(lv, emit) == lv >= 7 /\ emit

(***************************************************************************)
(* The values the shell (index.ts) and the web UI handle.  A JavaScript    *)
(* value that is used as a number is written [type, value]: a number, NaN, *)
(* undefined, or a string that does not read as a number.                  *)
(***************************************************************************)
MaxTurns == 2

MaxRequests == 2

Num(n) == [type |-> "number", value |-> n]

NaN == [type |-> "NaN", value |-> 0]

Undefined == [type |-> "undefined", value |-> 0]

NotNumeric == [type |-> "string", value |-> 0]

\* the number an arithmetic operation reads in v
ToNumber(v) == IF v.type = "number" THEN v ELSE NaN

\* a === b
StrictEquals(a, b) == a.type = b.type /\ a.type # "NaN" /\ a.value = b.value

Digits == <<"0", "1", "2", "3", "4", "5", "6", "7", "8", "9">>

IsDigit(c) == \E i \in DOMAIN Digits : Digits[i] = c

DigitValue(c) == (CHOOSE i \in DOMAIN Digits : Digits[i] = c) - 1

RECURSIVE DigitsValue(_)
\* the number the decimal digits ds write
DigitsValue(ds) ==
    IF ds = <<>> THEN 0
    ELSE DigitsValue(SubSeq(ds, 1, Len(ds) - 1)) * 10 + DigitValue(ds[Len(ds)])

\* parseInt(s, 10): leading white space and a sign are skipped, the digits
\* up to the first character that is not one are read, and the result is
\* NaN when there is no digit to read
parseInt(s) ==
    LET t == TrimStart(s)
        signed == t # <<>> /\ t[1] \in {"+", "-"}
        u == IF signed THEN Tail(t) ELSE t
        stops == { j \in DOMAIN u : ~IsDigit(u[j]) }
        n == IF stops = {} THEN Len(u) ELSE First(stops) - 1
        v == DigitsValue(SubSeq(u, 1, n))
    IN  IF n = 0 THEN NaN
        ELSE Num(IF signed /\ t[1] = "-" THEN 0 - v ELSE v)

\* s.slice(n)
Slice(s, n) == SubSeq(s, n + 1, Len(s))

RECURSIVE TagOf(_)
\* the language tag the characters of s spell
TagOf(s) == IF s = <<>> THEN "" ELSE s[1] \o TagOf(Tail(s))

\* getStrings(lang) of i18n: the string table of lang
getStrings(lang) == [table |-> lang]

\* Math.max(1, Math.min(10, v)): NaN when v is not a number
ClampNumber(v) ==
    IF ToNumber(v).type = "NaN" THEN NaN ELSE Num(ClampLevel(v.value))

\* new DeafSimulator({ level: lv, language: lang }), as the object a caller
\* holds
DeafSimulator(lv, lang) == [level |-> ClampNumber(lv), language |-> lang]

\* the values decideAction(word) can return when this.level is NaN:
\* recognitionRates[NaN] is undefined, so keepRate is 70, and both
\* comparisons of each rate are false, so the rates are 15 and 10
DecidedActionsNaN(lang, w) ==
    LET kept == 70 + importanceBonus(w, lang)
        keepT == IF kept < 98 THEN kept ELSE 98
        th == [keep |-> keepT, garble |-> keepT + 15, partial |-> keepT + 25]
    IN  { ActionOf(r, th) : r \in Rolls }

\* partialWord(word) when this.level is NaN: keepLength is NaN, slice(0, NaN)
\* is empty and slice(-NaN) is the whole word
partialWordNaN(w, atStart) ==
    IF Len(w) <= 3
    THEN (IF Len(w) = 0 THEN UndefinedText ELSE <<w[1]>>) \o Ellipsis
    ELSE IF atStart THEN Ellipsis ELSE Ellipsis \o w

\* what one iteration of the loop of simulate can push for the token w, as
\* a list of no or one string; with a level of NaN garbleWord changes
\* nothing (i < NaN is false) and no placeholder is pushed
Pushed(sim, w) ==
    LET lang == sim.language
        nan == sim.level.type = "NaN"
        lv == sim.level.value
        as == IF nan THEN DecidedActionsNaN(lang, w)
              ELSE DecidedActions(lv, lang, w)
    IN  UNION {
          CASE a = "keep" -> { <<w>> }
            [] a = "garble" ->
                 IF nan THEN { <<w>> }
                 ELSE { <<g>> : g \in garbleWord(w, lv, lang) }
            [] a = "partial" ->
                 IF nan THEN { <<partialWordNaN(w, b)>> : b \in BOOLEAN }
                 ELSE { <<partialWord(w, lv, b)>> : b \in BOOLEAN }
            [] OTHER ->
                 IF nan THEN { <<>> }
                 ELSE { IF pushesPlaceholder(lv, emit) THEN <<Placeholder>> ELSE <<>> :
                          emit \in BOOLEAN } :
          a \in as }

RECURSIVE PushedAll(_, _)
\* the values degradedWords can have after the loop over the tokens ws
PushedAll(sim, ws) ==
    IF ws = <<>> THEN { <<>> }
    ELSE { first \o rest : first \in Pushed(sim, Head(ws)),
                           rest \in PushedAll(sim, Tail(ws)) }

\* the values of simulate(in).degraded for the engine sim
simulateDegraded(sim, in) == { Degraded(ds) : ds \in PushedAll(sim, Split(in)) }

\* the environments: DEAF_LEVEL, LANGUAGE and SYSTEM_PROMPT, each empty when
\* it is not set
NoEnv == [DEAF_LEVEL |-> <<>>, LANGUAGE |-> "", SYSTEM_PROMPT |-> <<>>]

Envs ==
    { NoEnv,
      [NoEnv EXCEPT !.DEAF_LEVEL = <<"7">>],
      [NoEnv EXCEPT !.DEAF_LEVEL = <<"x">>],
      [NoEnv EXCEPT !.LANGUAGE = "it"],
      [NoEnv EXCEPT !.LANGUAGE = UnknownLanguage],
      [NoEnv EXCEPT !.SYSTEM_PROMPT = <<"B", "e">>] }

\* process.env.X || fallback
OrElse(value, fallback, empty) == IF value = empty THEN fallback ELSE value

\* const config of the web UI; systemPrompt is empty for null
webConfig(env) ==
    [level |-> parseInt(OrElse(env.DEAF_LEVEL, <<"5">>, <<>>)),
     language |-> OrElse(env.LANGUAGE, "en", ""),
     systemPrompt |-> env.SYSTEM_PROMPT]

\* loadConfig() of the shell
loadConfig(env) ==
    LET read == webConfig(env)
    IN  IF read.language \notin Languages
        THEN [read EXCEPT !.language = "en"]
        ELSE read

\* const initialHistory
initialHistory(cfg) ==
    IF cfg.systemPrompt # <<>>
    THEN << [role |-> "system", content |-> cfg.systemPrompt] >>
    ELSE <<>>

NoConfig == [level |-> NaN, language |-> "none", systemPrompt |-> <<>>]

NoSimulator == [level |-> NaN, language |-> "none"]

NoState ==
    [simulator |-> NoSimulator, language |-> "none",
     strings |-> getStrings("none"), conversationHistory |-> <<>>]

\* handleLevelCommand that builds the engine with the configured language
handleLevelCommandDefaultLanguage(st, args) ==
    LET lv == parseInt(args)
    IN  IF lv.type = "NaN" \/ lv.value < 1 \/ lv.value > 10 THEN st
        ELSE [st EXCEPT !.simulator = DeafSimulator(lv, "en")]

\* handleLevelCommand(state, args), as the state it leaves
handleLevelCommand(st, args) ==
    LET lv == parseInt(args)
    IN  IF lv.type = "NaN" \/ lv.value < 1 \/ lv.value > 10 THEN st
        ELSE [st EXCEPT !.simulator = DeafSimulator(lv, st.language)]

\* handleLangCommand without the test of the tag
handleLangCommandUnchecked(st, args) ==
    LET lang == TagOf(toLowerCase(Trim(args)))
    IN  [st EXCEPT !.language = lang,
                   !.strings = getStrings(lang),
                   !.simulator = DeafSimulator(st.simulator.level, lang)]

\* handleLangCommand(state, args), as the state it leaves
handleLangCommand(st, args) ==
    LET lang == TagOf(toLowerCase(Trim(args)))
    IN  IF lang \notin Languages THEN st
        ELSE [st EXCEPT !.language = lang,
                        !.strings = getStrings(lang),
                        !.simulator = DeafSimulator(st.simulator.level, lang)]

\* the lines typed at the prompt of the shell
CliLines ==
    { <<>>,
      <<"h", "i">>,
      <<"/", "e", "x", "i", "t">>,
      <<"/", "h", "e", "l", "p">>,
      <<"/", "f", "o", "o">>,
      <<"/", "l", "e", "v", "e", "l">>,
      <<"/", "l", "e", "v", "e", "l", " ", "3">>,
      <<"/", "L", "E", "V", "E", "L", " ", "1", "0", "x">>,
      <<" ", "/", "l", "e", "v", "e", "l", " ", "9">>,
      <<" ", " ", "/", "l", "e", "v", "e", "l", " ", "9">>,
      <<"/", "l", "e", "v", "e", "l", " ", "0">>,
      <<"/", "l", "e", "v", "e", "l", " ", "1", "1">>,
      <<"/", "l", "e", "v", "e", "l", " ", "x">>,
      <<"/", "l", "a", "n", "g", " ", "i", "t">>,
      <<"/", "l", "a", "n", "g", " ", "E", "N", " ">>,
      <<"/", "l", "a", "n", "g", " ", "f", "r">> }

\* the bodies of the /api/chat requests: a session id, a message (absent
\* in some), a level and a language
SessionIds == { "s1", "s2" }

BodyLevels == { Num(5), Num(11), Undefined, NotNumeric }

BodyLanguages == { "en", UnknownLanguage }

WebMessages == { <<"h", "i">> }

Bodies ==
    [sessionId : SessionIds, message : WebMessages, hasMessage : {TRUE},
     level : BodyLevels, language : BodyLanguages]
    \cup [sessionId : SessionIds, message : WebMessages, hasMessage : {FALSE},
          level : {Num(5)}, language : {"en"}]

\* the replies of the chat API
Responses == { <<"o", "k">> }

RequestIds == 1..MaxRequests

NoRequest == [pc |-> "idle", session |-> "none", seen |-> <<>>, overlapped |-> FALSE]

(***************************************************************************)
(* State.                                                                  *)
(***************************************************************************)
VARIABLES
    pc,             \* "new" (no engine yet), "ready" (constructed), "loop"
                    \* (inside simulate), "returned" (simulate has returned),
                    \* "described", "decided" (that call has ended),
                    \* "garbling" (inside garbleWord), "garbled",
                    \* "truncated" (garbleWord, partialWord has returned)
    configLevel,    \* config.level as passed to the constructor
    level,          \* this.level
    language,       \* this.language
    thrown,         \* what the last call raised, "none" if it returned
    input,          \* simulate: the argument
    words,          \* simulate: const words
    idx,            \* simulate: the position of the for loop in words
    degradedWords,  \* simulate: const degradedWords
    droppedCount,   \* simulate: let droppedCount
    actions,        \* simulate: the value of `action` of every iteration so far
    placeholders,   \* simulate: how many times '[...]' was pushed
    result,         \* simulate: the object returned
    earlier,        \* simulate: TRUE when a call had returned on this engine
                    \* before the last call began
    word,           \* decideAction, garbleWord, partialWord: the argument of the
                    \* last direct call
    roll,           \* decideAction: const roll of the last direct call
    action,         \* decideAction: the value the last direct call returned
    chars,          \* garbleWord: const chars, an array of strings
    iter,           \* garbleWord: the counter i of the for loop
    edit,           \* garbleWord: the draws of the last iteration (pos, the
                    \* branch `action` selects, the index drawn in
                    \* getSimilarChar) and chars as it was before it
    out,            \* garbleWord, partialWord: the value the direct call returned
    program,        \* which entry point has run: "none", "cli" (main of
                    \* index.ts) or "web" (startServer of the web UI)
    config,         \* web UI: const config
    state,          \* shell: const state (simulator, language, strings,
                    \* conversationHistory)
    cliPc,          \* shell: "prompt" (waiting for a line), "streaming"
                    \* (inside the for await of processUserInput), "exited"
    line,           \* shell: the last line the main loop has read
    passed,         \* the arguments of the simulate calls made so far
    sent,           \* the message lists of the chat requests sent so far
    sessions,       \* web UI: const sessions, a map from session id to session
    owners,         \* web UI: for every session, the request that pushed each
                    \* message of its history (0 for the system message)
    requests,       \* web UI: the /api/chat requests: where each one is in
                    \* its handler, its session, the messages its chat
                    \* call was given, and whether it arrived while another
                    \* request of its session was awaiting its reply
    body,           \* chatStream: the whole response body
    offset,         \* chatStream: how much of the body reader.read() has given
    buffer,         \* chatStream: let buffer
    yielded,        \* chatStream: the values yielded so far
    streamPc        \* chatStream: "none", "reading", "done"

engineVars == <<configLevel, level, language>>

simVars ==
    <<input, words, idx, degradedWords, droppedCount, actions, placeholders,
      result, earlier>>

decideVars == <<word, roll, action>>

garbleVars == <<chars, iter, edit, out>>

appVars ==
    <<program, config, state, cliPc, line, passed, sent, sessions, owners,
      requests>>

streamVars == <<body, offset, buffer, yielded, streamPc>>

layerVars == <<appVars, streamVars>>

vars == <<pc, thrown, engineVars, simVars, decideVars, garbleVars, layerVars>>

NoEdit == [pos |-> 0, action |-> "none", pick |-> 0, before |-> <<>>]

NoResult == [original |-> <<>>, degraded |-> <<>>, lossPercentage |-> -1]

getLevel == level

getLanguage == language

Init ==
    /\ pc = "new"
    /\ configLevel = 0
    /\ level = 0
    /\ language = "none"
    /\ thrown = "none"
    /\ input = <<>>
    /\ words = <<>>
    /\ idx = 0
    /\ degradedWords = <<>>
    /\ droppedCount = 0
    /\ actions = <<>>
    /\ placeholders = 0
    /\ result = NoResult
    /\ earlier = FALSE
    /\ word = <<>>
    /\ roll = -1
    /\ action = "none"
    /\ chars = <<>>
    /\ iter = 0
    /\ edit = NoEdit
    /\ out = <<>>
    /\ program = "none"
    /\ config = NoConfig
    /\ state = NoState
    /\ cliPc = "none"
    /\ line = <<>>
    /\ passed = <<>>
    /\ sent = <<>>
    /\ sessions = <<>>
    /\ owners = <<>>
    /\ requests = [r \in RequestIds |-> NoRequest]
    /\ body = <<>>
    /\ offset = 0
    /\ buffer = <<>>
    /\ yielded = <<>>
    /\ streamPc = "none"

(***************************************************************************)
(* Operations.                                                             *)
(***************************************************************************)
\* a constructor that rejects a language outside the type
ConstructRejecting(lv, lang) ==
    /\ pc = "new"
    /\ IF lang \in Languages
       THEN /\ pc' = "ready"
            /\ configLevel' = lv
            /\ level' = ClampLevel(lv)
            /\ language' = lang
            /\ thrown' = "none"
       ELSE /\ thrown' = "InvalidConfiguration"
            /\ UNCHANGED <<pc, engineVars>>
    /\ UNCHANGED <<layerVars, simVars, decideVars, garbleVars>>

\* new DeafSimulator({ level: lv, language: lang })
Construct(lv, lang) ==
    /\ pc = "new"
    /\ pc' = "ready"
    /\ configLevel' = lv
    /\ level' = ClampLevel(lv)
    /\ language' = lang
    /\ thrown' = "none"
    /\ UNCHANGED <<layerVars, simVars, decideVars, garbleVars>>

\* getLevelDescription(): descriptions[this.language] is undefined for a
\* language outside the table, and indexing it raises a TypeError
GetLevelDescription ==
    /\ pc = "ready"
    /\ pc' = "described"
    /\ thrown' = IF language \in Languages THEN "none" ELSE "TypeError"
    /\ UNCHANGED <<layerVars, engineVars, simVars, decideVars, garbleVars>>

\* a direct call decideAction(w) on a fresh engine, whose draw is r
DecideActionCall(w, r) ==
    /\ pc = "ready"
    /\ pc' = "decided"
    /\ word' = w
    /\ roll' = r
    /\ action' = decideAction(level, language, w, r)
    /\ thrown' = "none"
    /\ UNCHANGED <<layerVars, engineVars, simVars, garbleVars>>

\* a simulate whose degradedWords outlives the call
SimulateCallKeepingWords(in) ==
    /\ pc \in {"ready", "returned"}
    /\ pc' = "loop"
    /\ input' = in
    /\ words' = Split(in)
    /\ idx' = 1
    /\ droppedCount' = 0
    /\ actions' = <<>>
    /\ placeholders' = 0
    /\ result' = NoResult
    /\ earlier' = (pc = "returned")
    /\ thrown' = "none"
    /\ UNCHANGED <<layerVars, engineVars, degradedWords, decideVars, garbleVars>>

\* simulate(in), up to the for loop
SimulateCall(in) ==
    /\ pc \in {"ready", "returned"}
    /\ pc' = "loop"
    /\ input' = in
    /\ words' = Split(in)
    /\ idx' = 1
    /\ degradedWords' = <<>>
    /\ droppedCount' = 0
    /\ actions' = <<>>
    /\ placeholders' = 0
    /\ result' = NoResult
    /\ earlier' = (pc = "returned")
    /\ thrown' = "none"
    /\ UNCHANGED <<layerVars, engineVars, decideVars, garbleVars>>

\* one iteration of the for loop of simulate; the draws are the roll of
\* decideAction and those of the branch taken.  `decisions` are the actions
\* and `emits` the outcomes of Math.random() < 0.3 the draws are taken from
ProcessStep(decisions, emits) ==
    /\ pc = "loop"
    /\ idx <= Len(words)
    /\ LET w == words[idx]
       IN  \E a \in DecidedActions(level, language, w) \cap decisions :
             /\ actions' = Append(actions, a)
             /\ \/ /\ a = "keep"
                   /\ degradedWords' = Append(degradedWords, w)
                   /\ UNCHANGED <<droppedCount, placeholders>>
                \/ /\ a = "garble"
                   /\ \E g \in garbleWord(w, level, language) :
                          degradedWords' = Append(degradedWords, g)
                   /\ UNCHANGED <<droppedCount, placeholders>>
                \/ /\ a = "partial"
                   /\ \E atStart \in BOOLEAN :
                          degradedWords' =
                              Append(degradedWords, partialWord(w, level, atStart))
                   /\ UNCHANGED <<droppedCount, placeholders>>
                \/ /\ a = "drop"
                   /\ droppedCount' = droppedCount + 1
                   /\ \E emit \in emits :
                          IF pushesPlaceholder(level, emit)
                          THEN /\ degradedWords' = Append(degradedWords, Placeholder)
                               /\ placeholders' = placeholders + 1
                          ELSE UNCHANGED <<degradedWords, placeholders>>
    /\ idx' = idx + 1
    /\ UNCHANGED <<layerVars, pc, thrown, engineVars, input, words, result, earlier,
                   decideVars, garbleVars>>

\* one iteration under any draws
ProcessWord == ProcessStep(Actions, BOOLEAN)

\* one iteration of a run whose draws drop the first tokens of the input,
\* without a placeholder, and keep all the others
ProcessWordDropsFirst ==
    ProcessStep(IF \A j \in DOMAIN actions : actions[j] = "drop"
                THEN {"keep", "drop"} ELSE {"keep"},
                {FALSE})

\* simulate: after the loop, build and return the result
SimulateReturn ==
    /\ pc = "loop"
    /\ idx > Len(words)
    /\ pc' = "returned"
    /\ LET degraded == Degraded(degradedWords)
       IN  result' = [original |-> input,
                      degraded |-> degraded,
                      lossPercentage |-> LossPercentage(words, degraded)]
    /\ thrown' = "none"
    /\ UNCHANGED <<layerVars, engineVars, input, words, idx, degradedWords, droppedCount,
                   actions, placeholders, earlier, decideVars, garbleVars>>

\* a direct call garbleWord(w) on a fresh engine, up to the for loop
GarbleWordCall(w) ==
    /\ pc = "ready"
    /\ word' = w
    /\ iter' = 0
    /\ edit' = NoEdit
    /\ thrown' = "none"
    /\ IF Len(w) <= 2
       THEN /\ pc' = "garbled"
            /\ chars' = <<>>
            /\ out' = w
       ELSE /\ pc' = "garbling"
            /\ chars' = SplitChars(w)
            /\ out' = <<>>
    /\ UNCHANGED <<layerVars, engineVars, simVars, roll, action>>

\* one iteration of the for loop of garbleWord; pos is never outside chars,
\* so currentChar is never undefined
GarbleEdit ==
    /\ pc = "garbling"
    /\ iter < numChanges(word, level)
    /\ Len(chars) # 0
    /\ \E pos \in 1..Len(chars), a \in EditActions :
         \E k \in (IF a = "replace" THEN Picks(chars[pos], language) ELSE {0}) :
            /\ chars' = ApplyEdit(chars, language, pos, a, k)
            /\ edit' = [pos |-> pos, action |-> a, pick |-> k, before |-> chars]
    /\ iter' = iter + 1
    /\ UNCHANGED <<layerVars, pc, thrown, engineVars, simVars, decideVars, out>>

\* garbleWord: the loop has ended (i reached numChanges, or the break)
GarbleReturn ==
    /\ pc = "garbling"
    /\ (iter >= numChanges(word, level) \/ Len(chars) = 0)
    /\ pc' = "garbled"
    /\ out' = JoinChars(chars)
    /\ UNCHANGED <<layerVars, thrown, engineVars, simVars, decideVars, chars, iter, edit>>

\* a direct call partialWord(w) on a fresh engine; atStart is the outcome of
\* Math.random() < 0.6
PartialWordCall(w, atStart) ==
    /\ pc = "ready"
    /\ pc' = "truncated"
    /\ word' = w
    /\ out' = partialWord(w, level, atStart)
    /\ thrown' = "none"
    /\ UNCHANGED <<layerVars, engineVars, simVars, roll, action, chars, iter, edit>>

(***************************************************************************)
(* The shell: main of index.ts.                                            *)
(***************************************************************************)
\* main(), up to the first prompt
Main(env) ==
    /\ program = "none"
    /\ program' = "cli"
    /\ LET cfg == loadConfig(env)
       IN  state' = [simulator |-> DeafSimulator(cfg.level, cfg.language),
                     language |-> cfg.language,
                     strings |-> getStrings(cfg.language),
                     conversationHistory |-> initialHistory(cfg)]
    /\ cliPc' = "prompt"
    /\ UNCHANGED <<config, line, passed, sent, sessions, owners, requests>>
    /\ UNCHANGED <<pc, thrown, engineVars, simVars, decideVars, garbleVars, streamVars>>

\* the branch of the main loop that the line l takes
Dispatch(l) ==
    LET trimmed == toLowerCase(Trim(l))
    IN  IF Trim(l) = <<>> THEN "empty"
        ELSE IF trimmed \in { <<"/", "e", "x", "i", "t">>, <<"/", "q", "u", "i", "t">> }
             THEN "exit"
        ELSE IF trimmed \in { <<"/", "h", "e", "l", "p">>, <<"/", "c", "l", "e", "a", "r">> }
             THEN "banner"
        ELSE IF trimmed = <<"/", "m", "o", "d", "e", "l", "s">> THEN "models"
        ELSE IF StartsWith(trimmed, <<"/", "l", "e", "v", "e", "l", " ">>) THEN "level"
        ELSE IF StartsWith(trimmed, <<"/", "l", "a", "n", "g", " ">>) THEN "lang"
        ELSE IF StartsWith(trimmed, <<"/">>) THEN "unknown"
        ELSE "message"

\* one turn of the main loop for a line that is empty or a command; the
\* models a /models command lists and selects are not part of this state
ReadCommand(l) ==
    /\ program = "cli"
    /\ cliPc = "prompt"
    /\ Dispatch(l) # "message"
    /\ line' = l
    /\ cliPc' = IF Dispatch(l) = "exit" THEN "exited" ELSE "prompt"
    /\ state' = CASE Dispatch(l) = "level" -> handleLevelCommand(state, Slice(l, 7))
                  [] Dispatch(l) = "lang" -> handleLangCommand(state, Slice(l, 6))
                  [] OTHER -> state
    /\ UNCHANGED <<program, config, passed, sent, sessions, owners, requests>>
    /\ UNCHANGED <<pc, thrown, engineVars, simVars, decideVars, garbleVars, streamVars>>

\* processUserInput(state, l), up to the first chunk of the reply; at most
\* MaxTurns messages are typed
ProcessUserInput(l) ==
    /\ program = "cli"
    /\ cliPc = "prompt"
    /\ Dispatch(l) = "message"
    /\ Len(passed) < MaxTurns
    /\ line' = l
    /\ passed' = Append(passed, l)
    /\ \E degraded \in simulateDegraded(state.simulator, l) :
         LET history == Append(state.conversationHistory,
                               [role |-> "user", content |-> degraded])
         IN  /\ state' = [state EXCEPT !.conversationHistory = history]
             /\ sent' = Append(sent, history)
    /\ cliPc' = "streaming"
    /\ UNCHANGED <<program, config, sessions, owners, requests>>
    /\ UNCHANGED <<pc, thrown, engineVars, simVars, decideVars, garbleVars, streamVars>>

\* processUserInput: the stream has ended and fullResponse is pushed
ChatStreamEnds(fullResponse) ==
    /\ program = "cli"
    /\ cliPc = "streaming"
    /\ state' = [state EXCEPT !.conversationHistory =
                     Append(@, [role |-> "assistant", content |-> fullResponse])]
    /\ cliPc' = "prompt"
    /\ UNCHANGED <<program, config, line, passed, sent, sessions, owners, requests>>
    /\ UNCHANGED <<pc, thrown, engineVars, simVars, decideVars, garbleVars, streamVars>>

\* processUserInput: chatStream has thrown (the request failed, or the
\* stream broke), and the catch block has printed the error
ChatStreamFails ==
    /\ program = "cli"
    /\ cliPc = "streaming"
    /\ cliPc' = "prompt"
    /\ UNCHANGED <<program, config, state, line, passed, sent, sessions, owners,
                   requests>>
    /\ UNCHANGED <<pc, thrown, engineVars, simVars, decideVars, garbleVars, streamVars>>

(***************************************************************************)
(* The web UI: startServer and the handlers of /api/chat and /api/model.   *)
(***************************************************************************)
\* the module of the web UI is loaded and the server started
StartServer(env) ==
    /\ program = "none"
    /\ program' = "web"
    /\ config' = webConfig(env)
    /\ UNCHANGED <<state, cliPc, line, passed, sent, sessions, owners, requests>>
    /\ UNCHANGED <<pc, thrown, engineVars, simVars, decideVars, garbleVars, streamVars>>

\* the session getOrCreateSession stores for a new id
NewSession(cfg) ==
    [simulator |-> DeafSimulator(cfg.level, cfg.language),
     history |-> initialHistory(cfg),
     language |-> cfg.language]

\* const sessions after getOrCreateSession(id)
getOrCreateSession(ss, cfg, id) ==
    IF id \in DOMAIN ss THEN ss
    ELSE [s \in DOMAIN ss \cup {id} |-> IF s = id THEN NewSession(cfg) ELSE ss[s]]

\* the owners of the messages of the sessions after getOrCreateSession(id)
OwnersWith(os, cfg, id) ==
    IF id \in DOMAIN os THEN os
    ELSE [s \in DOMAIN os \cup {id} |->
              IF s = id THEN [j \in DOMAIN initialHistory(cfg) |-> 0] ELSE os[s]]

\* the session after `Update settings if changed`
UpdateSettings(session, b) ==
    IF \/ ~StrictEquals(session.simulator.level, b.level)
       \/ session.language # b.language
    THEN [session EXCEPT !.simulator = DeafSimulator(b.level, b.language),
                         !.language = b.language]
    ELSE session

\* POST /api/chat for the request r with the body b, up to the await of
\* session.client.chat; without a message simulate raises a TypeError and
\* the handler answers 500.  The requests are numbered as they arrive
ChatRequest(r, b) ==
    /\ program = "web"
    /\ requests[r].pc = "idle"
    /\ \A q \in RequestIds : q < r => requests[q].pc # "idle"
    /\ LET id == b.sessionId
           created == getOrCreateSession(sessions, config, id)
           session == UpdateSettings(created[id], b)
           os == OwnersWith(owners, config, id)
           overlaps == \E q \in RequestIds :
                           requests[q].pc = "awaiting" /\ requests[q].session = id
       IN  IF ~b.hasMessage
           THEN /\ sessions' = [created EXCEPT ![id] = session]
                /\ owners' = os
                /\ requests' = [requests EXCEPT ![r] =
                                    [pc |-> "failed", session |-> id, seen |-> <<>>,
                                     overlapped |-> overlaps]]
           ELSE \E degraded \in simulateDegraded(session.simulator, b.message) :
                  LET history == Append(session.history,
                                        [role |-> "user", content |-> degraded])
                  IN  /\ sessions' = [created EXCEPT ![id] =
                                          [session EXCEPT !.history = history]]
                      /\ owners' = [os EXCEPT ![id] = Append(@, r)]
                      /\ requests' = [requests EXCEPT ![r] =
                                          [pc |-> "awaiting", session |-> id,
                                           seen |-> history,
                                           overlapped |-> overlaps]]
    /\ UNCHANGED <<program, config, state, cliPc, line, passed, sent>>
    /\ UNCHANGED <<pc, thrown, engineVars, simVars, decideVars, garbleVars, streamVars>>

\* POST /api/chat with a body c.req.json() cannot read
ChatRequestUnreadable(r) ==
    /\ program = "web"
    /\ requests[r].pc = "idle"
    /\ \A q \in RequestIds : q < r => requests[q].pc # "idle"
    /\ requests' = [requests EXCEPT ![r] =
                        [pc |-> "failed", session |-> "none", seen |-> <<>>,
                         overlapped |-> FALSE]]
    /\ UNCHANGED <<program, config, state, cliPc, line, passed, sent, sessions,
                   owners>>
    /\ UNCHANGED <<pc, thrown, engineVars, simVars, decideVars, garbleVars, streamVars>>

\* POST /api/chat: session.client.chat has returned `response`
ChatResponds(r, response) ==
    /\ program = "web"
    /\ requests[r].pc = "awaiting"
    /\ LET id == requests[r].session
       IN  /\ sessions' = [sessions EXCEPT ![id].history =
                               Append(@, [role |-> "assistant", content |-> response])]
           /\ owners' = [owners EXCEPT ![id] = Append(@, r)]
    /\ requests' = [requests EXCEPT ![r].pc = "done"]
    /\ UNCHANGED <<program, config, state, cliPc, line, passed, sent>>
    /\ UNCHANGED <<pc, thrown, engineVars, simVars, decideVars, garbleVars, streamVars>>

\* POST /api/chat: session.client.chat has thrown, and the handler answers 500
ChatFails(r) ==
    /\ program = "web"
    /\ requests[r].pc = "awaiting"
    /\ requests' = [requests EXCEPT ![r].pc = "failed"]
    /\ UNCHANGED <<program, config, state, cliPc, line, passed, sent, sessions,
                   owners>>
    /\ UNCHANGED <<pc, thrown, engineVars, simVars, decideVars, garbleVars, streamVars>>

\* POST /api/model for the session id; the model of the client is not part
\* of this state
SetModel(id) ==
    /\ program = "web"
    /\ sessions' = getOrCreateSession(sessions, config, id)
    /\ owners' = OwnersWith(owners, config, id)
    /\ UNCHANGED <<program, config, state, cliPc, line, passed, sent, requests>>
    /\ UNCHANGED <<pc, thrown, engineVars, simVars, decideVars, garbleVars, streamVars>>

(***************************************************************************)
(* ApiClient.chatStream.  The body of the response is a text of lines      *)
(* `data: <JSON>`; the JSON of a chunk is abbreviated: {c} is a chunk      *)
(* whose choices[0].delta.content is the text c, {} one without content,   *)
(* and any other text does not parse.                                      *)
(***************************************************************************)
MaxLines == 2

DataPrefix == <<"d", "a", "t", "a", ":", " ">>

DoneLine == DataPrefix \o <<"[", "D", "O", "N", "E", "]">>

\* the characters line.trim() removes
LineSpace == Whitespace \cup { "\r", "\n" }

\* line.trim()
TrimLine(s) ==
    LET inked == { j \in DOMAIN s : s[j] \notin LineSpace }
    IN  IF inked = {} THEN <<>> ELSE SubSeq(s, First(inked), Last(inked))

\* s.split('\n')
SplitLines(s) ==
    LET breaks == SelectSeq([j \in DOMAIN s |-> j], LAMBDA j : s[j] = "\n")
        n == Len(breaks) + 1
    IN  [t \in 1..n |-> SubSeq(s, IF t = 1 THEN 1 ELSE breaks[t - 1] + 1,
                                  IF t = n THEN Len(s) ELSE breaks[t] - 1)]

\* JSON.parse(text).choices[0]?.delta?.content, "malformed" when either
\* step throws
DeltaContent(text) ==
    IF /\ Len(text) >= 2
       /\ text[1] = "{"
       /\ text[Len(text)] = "}"
       /\ \A j \in 2..(Len(text) - 1) : text[j] \notin { "{", "}" }
    THEN [parsed |-> TRUE, content |-> SubSeq(text, 2, Len(text) - 1)]
    ELSE [parsed |-> FALSE, content |-> <<>>]

\* what the body of the for loop yields for one line: a list of no or one
\* content
YieldOf(ln) ==
    LET trimmed == TrimLine(ln)
        json == DeltaContent(Slice(trimmed, Len(DataPrefix)))
    IN  IF trimmed = <<>> \/ trimmed = DoneLine THEN <<>>
        ELSE IF ~StartsWith(trimmed, DataPrefix) THEN <<>>
        ELSE IF json.parsed /\ json.content # <<>> THEN << json.content >>
        ELSE <<>>

\* what the for loop yields for the lines lns, in order
YieldsOf(lns) ==
    LET each == [j \in DOMAIN lns |-> YieldOf(lns[j])]
        some == SelectSeq([j \in DOMAIN lns |-> j], LAMBDA j : each[j] # <<>>)
    IN  [k \in DOMAIN some |-> each[some[k]][1]]

\* the lines a response body is made of
LineTexts ==
    { <<>>,
      DataPrefix \o <<"{", "A", "}">>,
      DataPrefix \o <<"{", "B", "}", "\r">>,
      DataPrefix \o <<"{", "}">>,
      DataPrefix \o <<"{", "A">>,
      <<":", "k">>,
      DoneLine }

RECURSIVE LinesUpTo(_)
\* the lists of at most n lines
LinesUpTo(n) ==
    IF n = 0 THEN { <<>> }
    ELSE LinesUpTo(n - 1)
         \cup { Append(ls, l) : ls \in LinesUpTo(n - 1), l \in LineTexts }

RECURSIVE JoinLines(_)
\* lines.join('\n')
JoinLines(ls) ==
    IF ls = <<>> THEN <<>>
    ELSE IF Len(ls) = 1 THEN ls[1]
    ELSE JoinLines(SubSeq(ls, 1, Len(ls) - 1)) \o <<"\n">> \o ls[Len(ls)]

\* the response bodies: some lines, the last one with or without its
\* line feed
StreamBodies ==
    { JoinLines(ls) \o end : ls \in LinesUpTo(MaxLines) \ { <<>> },
                             end \in { <<>>, <<"\n">> } }

\* chatStream(messages), up to the loop: the response is ok and has the body b
StreamOpen(b) ==
    /\ streamPc = "none"
    /\ streamPc' = "reading"
    /\ body' = b
    /\ offset' = 0
    /\ buffer' = <<>>
    /\ yielded' = <<>>
    /\ UNCHANGED <<pc, thrown, engineVars, simVars, decideVars, garbleVars, appVars>>

\* one turn of the while loop, for a chunk of any number n of the
\* characters not read yet
StreamRead ==
    /\ streamPc = "reading"
    /\ \E n \in 1..(Len(body) - offset) :
         LET lines == SplitLines(buffer \o SubSeq(body, offset + 1, offset + n))
         IN  /\ buffer' = lines[Len(lines)]
             /\ yielded' = yielded \o YieldsOf(SubSeq(lines, 1, Len(lines) - 1))
             /\ offset' = offset + n
    /\ UNCHANGED <<streamPc, body>>
    /\ UNCHANGED <<pc, thrown, engineVars, simVars, decideVars, garbleVars, appVars>>

\* reader.read() reports done, the loop breaks and the generator returns
StreamDone ==
    /\ streamPc = "reading"
    /\ offset = Len(body)
    /\ streamPc' = "done"
    /\ UNCHANGED <<body, offset, buffer, yielded>>
    /\ UNCHANGED <<pc, thrown, engineVars, simVars, decideVars, garbleVars, appVars>>

\* an engine of one of the three languages, and a simulate call on it
Next ==
    \/ \E lv \in RawLevels, lang \in Languages : Construct(lv, lang)
    \/ \E in \in Inputs : pc = "ready" /\ SimulateCall(in)
    \/ ProcessWord
    \/ SimulateReturn

Spec == Init /\ [][Next]_vars

\* an engine of one of the three languages, and any number of simulate
\* calls on it, one after the other, for the shorter inputs
NextCalls ==
    \/ \E lv \in RawLevels, lang \in Languages : Construct(lv, lang)
    \/ \E in \in ShortInputs : SimulateCall(in)
    \/ ProcessWord
    \/ SimulateReturn

SpecCalls == Init /\ [][NextCalls]_vars

\* an agnostic engine, and a simulate call on it for a long input, under
\* the draws that drop the first tokens
NextLong ==
    \/ \E lv \in RawLevels : Construct(lv, "agnostic")
    \/ \E in \in LongInputs : pc = "ready" /\ SimulateCall(in)
    \/ ProcessWordDropsFirst
    \/ SimulateReturn

SpecLong == Init /\ [][NextLong]_vars

\* an engine of one of the three languages, and one call of garbleWord or
\* of partialWord on it
NextWord ==
    \/ \E lv \in RawLevels, lang \in Languages : Construct(lv, lang)
    \/ \E w \in GarbleWords : GarbleWordCall(w)
    \/ GarbleEdit
    \/ GarbleReturn
    \/ \E w \in ProbeWords, atStart \in BOOLEAN : PartialWordCall(w, atStart)

SpecWord == Init /\ [][NextWord]_vars

\* an engine of any language tag, and one call of decideAction or of
\* getLevelDescription on it
NextDecide ==
    \/ \E lv \in RawLevels, lang \in Languages \cup {UnknownLanguage} :
           Construct(lv, lang)
    \/ GetLevelDescription
    \/ \E w \in ProbeWords, r \in Rolls : DecideActionCall(w, r)

SpecDecide == Init /\ [][NextDecide]_vars

\* the shell or the web UI, whichever is started, under any environment,
\* any lines typed and any requests
NextApp ==
    \/ \E env \in Envs : Main(env)
    \/ \E l \in CliLines : ReadCommand(l)
    \/ \E l \in CliLines : ProcessUserInput(l)
    \/ \E fullResponse \in Responses : ChatStreamEnds(fullResponse)
    \/ ChatStreamFails
    \/ \E env \in Envs : StartServer(env)
    \/ \E r \in RequestIds, b \in Bodies : ChatRequest(r, b)
    \/ \E r \in RequestIds : ChatRequestUnreadable(r)
    \/ \E r \in RequestIds, response \in Responses : ChatResponds(r, response)
    \/ \E r \in RequestIds : ChatFails(r)
    \/ \E id \in SessionIds : SetModel(id)

SpecApp == Init /\ [][NextApp]_vars

\* one call of chatStream, for any body and any way the reader cuts it
\* into chunks
NextStream ==
    \/ \E b \in StreamBodies : StreamOpen(b)
    \/ StreamRead
    \/ StreamDone

SpecStream == Init /\ [][NextStream]_vars

(***************************************************************************)
(* Definitions shared by the properties below.                             *)
(***************************************************************************)
\* the keep rates as the specification tabulates them, by level
BaseKeepRate == <<97, 92, 85, 78, 70, 60, 45, 30, 18, 8>>

\* the decision the specification prescribes for a level, a bonus and a roll
PrescribedAction(lv, bonus, r) ==
    LET K == IF BaseKeepRate[lv] + bonus < 98 THEN BaseKeepRate[lv] + bonus ELSE 98
        G == IF lv <= 2 THEN 2 ELSE IF lv >= 9 THEN 5 ELSE 15
        P == IF lv <= 2 THEN 1 ELSE IF lv >= 9 THEN 3 ELSE 10
    IN  IF r < K THEN "keep"
        ELSE IF r >= K /\ r < K + G THEN "garble"
        ELSE IF r >= K + G /\ r < K + G + P THEN "partial"
        ELSE "drop"

\* the question words of both languages that fit in five characters
ShortQuestionPrefixes ==
    { <<"w", "h", "a", "t">>, <<"w", "h", "o">>, <<"w", "h", "y">>,
      <<"w", "h", "e", "n">>, <<"w", "h", "e", "r", "e">>, <<"h", "o", "w">>,
      <<"c", "o", "s", "a">>, <<"c", "h", "i">>, <<"d", "o", "v", "e">>,
      <<"c", "o", "m", "e">> }

\* a direct decideAction call has returned
Decided == pc = "decided"

\* a lowercase token of at most five characters
ShortLowercase(w) == Len(w) <= 5 /\ w = toLowerCase(w)

\* the rolls for which decideAction(w) is drop at level lv
DropRolls(lv, lang, w) == { r \in Rolls : decideAction(lv, lang, w, r) = "drop" }

AllActionsAre(a) == \A i \in DOMAIN actions : actions[i] = a

NoEmptyToken == \A i \in DOMAIN words : words[i] # <<>>

OnlyWhitespace(s) == \A i \in DOMAIN s : s[i] \in Whitespace

(***************************************************************************)
(* C1 .. C10                                                               *)
(***************************************************************************)
\* C1: when simulate has returned for an input of one or more non-empty
\* tokens, every token was dropped and no placeholder was pushed, the
\* degraded text is empty and lossPercentage is 100.
C1_AllDroppedIsTotalLoss ==
    (pc = "returned" /\ NoEmptyToken /\ AllActionsAre("drop") /\ placeholders = 0)
        => (result.degraded = <<>> /\ result.lossPercentage = 100)

\* C2: when simulate has returned for the empty string or a whitespace-only
\* input, whatever was drawn, the degraded text is empty and lossPercentage
\* is 0.
C2_BlankInputGivesEmptyResult ==
    (pc = "returned" /\ OnlyWhitespace(input))
        => (result.degraded = <<>> /\ result.lossPercentage = 0)

\* C3, as stated: no engine exists whose language is outside the three modes
\* (the construction failed).
C3_UnknownLanguageRejected == ~(pc # "new" /\ language \notin Languages)

\* C3, amended: no call raises InvalidConfiguration; an engine constructed
\* with a language outside the three modes keeps the tag it was given and a
\* clamped level, decideAction decides on it as on any engine, getSimilarChar
\* replaces each character of the token as in agnostic mode, and only
\* getLevelDescription raises (a TypeError).
C3_UnknownLanguageAccepted ==
    /\ thrown # "InvalidConfiguration"
    /\ (pc # "new" /\ language \notin Languages) =>
          /\ getLanguage = UnknownLanguage
          /\ getLevel = ClampLevel(configLevel)
          /\ (thrown = "TypeError") = (pc = "described")
          /\ Decided =>
                /\ action = PrescribedAction(level, importanceBonus(word, language), roll)
                /\ \A i \in DOMAIN word :
                       /\ Picks(<<word[i]>>, language) = Picks(<<word[i]>>, "agnostic")
                       /\ \A k \in Picks(<<word[i]>>, language) :
                              getSimilarChar(<<word[i]>>, language, k)
                                  = getSimilarChar(<<word[i]>>, "agnostic", k)

\* C3 witness: decideAction has returned garble for a token of letters on an
\* engine of an unknown language.
C3_Witness ==
    /\ Decided
    /\ language = UnknownLanguage
    /\ action = "garble"
    /\ word = <<"c", "a", "t">>

\* C4: after construction getLevel() is config.level brought into 1..10:
\* 1 below 1, 10 above 10, unchanged in between; nothing is raised.
C4_LevelClamped ==
    /\ pc # "new" =>
          getLevel = (IF configLevel < 1 THEN 1
                      ELSE IF configLevel > 10 THEN 10 ELSE configLevel)
    /\ pc = "ready" => thrown = "none"

\* C4 witness: an engine constructed with a level below 1.
C4_Witness == pc = "ready" /\ configLevel < 1 /\ getLevel = 1

\* C5: the value decideAction returned is the one the thresholds K, K+G and
\* K+G+P prescribe for the level, the token's bonus (0 or 5) and the roll.
C5_DecisionRule ==
    Decided =>
        /\ level \in 1..10
        /\ importanceBonus(word, language) \in {0, 5}
        /\ action = PrescribedAction(level, importanceBonus(word, language), roll)

\* C5 witness: a partial decision at the first roll of its range (K + G = 99
\* at level 2 with the bonus).
C5_Witness ==
    /\ Decided
    /\ action = "partial"
    /\ level = 2
    /\ importanceBonus(word, language) = 5
    /\ roll = 99

\* C6, as stated: a lowercase token of at most five characters gets the
\* bonus only for a question word of the engine's own language (of either
\* language in agnostic mode).
C6_BonusOfActiveLanguage ==
    (Decided /\ language \in Languages /\ ShortLowercase(word)) =>
        LET active == CASE language = "en" -> EnglishPrefixes
                        [] language = "it" -> ItalianPrefixes
                        [] OTHER -> EnglishPrefixes \cup ItalianPrefixes
            bonus == IF \E p \in active : StartsWith(word, p) THEN 5 ELSE 0
        IN  action = PrescribedAction(level, bonus, roll)

\* C6, amended: in every language mode a lowercase token of at most five
\* characters gets the bonus exactly when it starts with a question word of
\* either language.
C6_BonusIgnoresLanguage ==
    (Decided /\ ShortLowercase(word)) =>
        LET bonus == IF \E p \in ShortQuestionPrefixes : StartsWith(word, p)
                     THEN 5 ELSE 0
        IN  action = PrescribedAction(level, bonus, roll)

\* C6 witness: in english mode 'dove' is kept on a roll that only the bonus
\* keeps.
C6_Witness ==
    /\ Decided
    /\ language = "en"
    /\ word = <<"d", "o", "v", "e">>
    /\ roll >= BaseKeepRate[level]
    /\ action = "keep"

\* C7: for the token last decided, drop is possible at levels 3 and 4, for
\* at least as many rolls as at levels 1 and 2.
C7_ModerateDropsMore ==
    Decided =>
        \A hi \in {3, 4} :
            /\ DropRolls(hi, language, word) # {}
            /\ \A lo \in {1, 2} :
                   Cardinality(DropRolls(hi, language, word))
                       >= Cardinality(DropRolls(lo, language, word))

\* C8: a token kept at the engine's level on some roll is kept on the same
\* roll at every lower level.
C8_KeepMonotone ==
    (Decided /\ action = "keep") =>
        \A lower \in 1..(level - 1) :
            decideAction(lower, language, word, roll) = "keep"

\* C8 witness: a keep at level 10 that only the bonus keeps.
C8_Witness ==
    /\ Decided
    /\ action = "keep"
    /\ level = 10
    /\ roll >= BaseKeepRate[10]

\* C9: simulate returns without raising, and lossPercentage is an integer
\* from 0 to 100.
C9_LossInRange ==
    pc = "returned" =>
        /\ thrown = "none"
        /\ result.lossPercentage \in 0..100

\* C9 witness: a call on two tokens that garbled one and dropped the other.
C9_Witness ==
    /\ pc = "returned"
    /\ Len(words) = 2
    /\ NoEmptyToken
    /\ \E i, j \in DOMAIN actions : actions[i] = "garble" /\ actions[j] = "drop"
    /\ result.lossPercentage = 50

\* C10: when simulate has returned for an input of non-empty tokens joined
\* by single spaces and every token was kept, the degraded text is the input
\* and lossPercentage is 0.
C10_AllKeptIsIdentity ==
    (pc = "returned" /\ NoEmptyToken /\ input = Join(words) /\ AllActionsAre("keep"))
        => (result.degraded = input /\ result.lossPercentage = 0)

(***************************************************************************)
(* C11 .. C20                                                              *)
(***************************************************************************)
IsLetter(c) ==
    \E j \in DOMAIN LowerLetters : LowerLetters[j] = c \/ UpperLetters[j] = c

\* the call was made on non-empty tokens of letters joined by single spaces
LetterTokens ==
    /\ input = Join(words)
    /\ \A j \in DOMAIN words :
           words[j] # <<>> /\ \A k \in DOMAIN words[j] : IsLetter(words[j][k])

\* how many tokens of the call were dropped
Dropped == Cardinality({ j \in DOMAIN actions : actions[j] = "drop" })

\* d / n * 100 rounded to the nearest integer, a half rounding up
RoundedShare(d, n) == (200 * d + n) \div (2 * n)

\* C11: when simulate has returned for non-empty tokens of letters joined by
\* single spaces, of which some but not all were dropped, lossPercentage is
\* the share of dropped tokens, d / n * 100, rounded to the nearest integer.
C11_LossIsDroppedShare ==
    (pc = "returned" /\ LetterTokens /\ Dropped < Len(words)) =>
        result.lossPercentage = RoundedShare(Dropped, Len(words))

\* the texts a token w can contribute under the action a other than drop
OwnTexts(a, w) ==
    CASE a = "keep" -> {w}
      [] a = "garble" -> garbleWord(w, level, language)
      [] OTHER -> { partialWord(w, level, atStart) : atStart \in BOOLEAN }

\* C12: in a call whose input has no token '[...]', an iteration of the loop
\* pushes a placeholder only for a dropped token and only at level 7 or
\* above; below level 7 a dropped token pushes nothing; a kept, garbled or
\* partial token pushes exactly its own text (mangled by garbleWord or
\* partialWord) and no placeholder.
C12_PlaceholderOnlyForDrop ==
    [][(/\ pc = "loop"
        /\ idx' = idx + 1
        /\ \A j \in DOMAIN words : words[j] # Placeholder) =>
          LET a == actions'[idx]
          IN  /\ placeholders' # placeholders => (a = "drop" /\ level >= 7)
              /\ a = "drop" =>
                    \/ /\ level >= 7
                       /\ degradedWords' = Append(degradedWords, Placeholder)
                       /\ placeholders' = placeholders + 1
                    \/ /\ degradedWords' = degradedWords
                       /\ placeholders' = placeholders
              /\ a # "drop" =>
                    /\ placeholders' = placeholders
                    /\ \E t \in OwnTexts(a, words[idx]) :
                           degradedWords' = Append(degradedWords, t)]_vars

\* C12 witness: at level 7 a call on two tokens dropped the first with a
\* placeholder and garbled the second.
C12_Witness ==
    /\ pc = "returned"
    /\ level = 7
    /\ actions = <<"drop", "garble">>
    /\ placeholders = 1
    /\ Len(degradedWords) = 2
    /\ degradedWords[1] = Placeholder

\* a direct garbleWord call has returned
Garbled == pc = "garbled"

\* C13: the result of garbleWord for a token of more than two characters is
\* not empty and is at most ceil(length * level / 20) characters longer than
\* the token.
C13_GarbledLengthBounded ==
    (Garbled /\ Len(word) > 2) =>
        /\ level \in 1..10
        /\ out # <<>>
        /\ Len(out) <= Len(word) + (Len(word) * level + 19) \div 20

\* C13 witness: in italian mode 'alla' came back two characters longer, each
\* of its two edits having added one.
C13_Witness ==
    /\ Garbled
    /\ language = "it"
    /\ word = <<"a", "l", "l", "a">>
    /\ Len(out) = 6

\* the last iteration of a direct garbleWord call was a substitution
Substituted == pc \in {"garbling", "garbled"} /\ edit.action = "replace"

\* C14: in italian mode, after a substitution on 'h' or 'H' that character
\* is gone: the element of chars it was in is the empty string.
C14_ItalianHDisappears ==
    (/\ Substituted
     /\ language = "it"
     /\ edit.before[edit.pos] \in { <<"h">>, <<"H">> }) =>
        chars = [edit.before EXCEPT ![edit.pos] = <<>>]

\* the texts one substitution can turn the array cs into, in language lang
SubstitutionTexts(cs, lang) ==
    UNION { { JoinChars(ApplyEdit(cs, lang, q, "replace", k)) :
                  k \in Picks(cs[q], lang) } : q \in DOMAIN cs }

\* C15: in italian mode, when garbleWord starts on a token that contains a
\* two-character cluster keyed in the Italian table, one substitution can
\* replace that cluster as a unit by an entry of the cluster's list, a text
\* no substitution of agnostic mode gives.
C15_ClusterReplacedAsUnit ==
    (pc = "garbling" /\ iter = 0 /\ language = "it") =>
        \A p \in 1..(Len(word) - 1) :
            LET entries == italianMap(toLowerCase(<<word[p], word[p + 1]>>))
            IN  entries # <<>> =>
                  \E j \in DOMAIN entries :
                     LET text == SubSeq(word, 1, p - 1) \o entries[j]
                                     \o SubSeq(word, p + 2, Len(word))
                     IN  /\ text \in SubstitutionTexts(chars, "it")
                         /\ text \notin SubstitutionTexts(chars, "agnostic")

\* the array `after` is `before` with one edit ed applied: a substitution of
\* the element at ed.pos, its transposition with the right neighbour (none
\* at the last position) or its deletion
OneEdit(before, after, ed) ==
    /\ ed.before = before
    /\ ed.pos \in 1..Len(before)
    /\ CASE ed.action = "replace" ->
              /\ Len(after) = Len(before)
              /\ \A j \in DOMAIN before : j # ed.pos => after[j] = before[j]
         [] ed.action = "swap" ->
              /\ Len(after) = Len(before)
              /\ \A j \in DOMAIN before :
                     after[j] = IF ed.pos < Len(before) /\ j = ed.pos
                                THEN before[j + 1]
                                ELSE IF ed.pos < Len(before) /\ j = ed.pos + 1
                                     THEN before[j - 1]
                                     ELSE before[j]
         [] ed.action = "remove" ->
              /\ Len(after) = Len(before) - 1
              /\ \A j \in DOMAIN after :
                     after[j] = IF j < ed.pos THEN before[j] ELSE before[j + 1]
         [] OTHER -> FALSE

\* C16: garbleWord returns a token of at most two characters unchanged,
\* without an edit; for a longer token it returns the characters joined
\* after exactly ceil(length * level / 20) iterations, each of which applies
\* one edit, at a position inside the array, to the array the iteration
\* before it left.
C16_SequentialEdits ==
    [][/\ (pc # "garbled" /\ pc' = "garbled") =>
             IF Len(word') <= 2
             THEN out' = word' /\ iter' = 0
             ELSE /\ iter' = (Len(word') * level + 19) \div 20
                  /\ out' = JoinChars(chars')
       /\ (pc = "garbling" /\ pc' = "garbling") =>
             /\ iter' = iter + 1
             /\ iter' <= (Len(word) * level + 19) \div 20
             /\ OneEdit(chars, chars', edit')]_vars

\* C16 witness: 'alla' came back after two edits, the second a transposition
\* at the last position of an array the first had made one shorter.
C16_Witness ==
    /\ Garbled
    /\ word = <<"a", "l", "l", "a">>
    /\ iter = 2
    /\ edit.action = "swap"
    /\ Len(edit.before) = 3
    /\ edit.pos = 3
    /\ out = JoinChars(edit.before)

\* a direct partialWord call has returned
Truncated == pc = "truncated"

\* C17: for a token of more than three characters partialWord returns its
\* first k characters followed by '...' or '...' followed by its last k
\* characters, with k = max(1, floor(length * (15 - level) / 15)) and
\* 1 <= k < length; for a token of one to three characters it returns the
\* first character followed by '...'.
C17_PartialKeepsPrefixOrSuffix ==
    Truncated =>
        LET n == Len(word)
            f == (n * (15 - level)) \div 15
            k == IF f > 1 THEN f ELSE 1
        IN  /\ level \in 1..10
            /\ n > 3 =>
                  /\ 1 <= k /\ k < n
                  /\ out \in { SubSeq(word, 1, k) \o <<".", ".", ".">>,
                               <<".", ".", ".">> \o SubSeq(word, n - k + 1, n) }
            /\ n \in 1..3 => out = <<word[1], ".", ".", ".">>

\* C17 witness: at level 10 'pallone' came back as '...ne'.
C17_Witness ==
    /\ Truncated
    /\ level = 10
    /\ word = <<"p", "a", "l", "l", "o", "n", "e">>
    /\ out = <<".", ".", ".", "n", "e">>

\* C18: after a substitution, a character the table of the engine's language
\* lacks is unchanged; an uppercase character the table has is the
\* upper-cased form of an entry of the list of its lowercase form; a
\* lowercase one is an entry of its list as the table writes it.
C18_SubstitutionByTable ==
    Substituted =>
        LET c == edit.before[edit.pos]
            r == chars[edit.pos]
            list == getSimilarCharsMap(language, toLowerCase(c))
        IN  IF list = <<>> THEN r = c
            ELSE IF c = toUpperCase(c)
                 THEN \E j \in DOMAIN list : r = toUpperCase(list[j])
                 ELSE \E j \in DOMAIN list : r = list[j]

\* the whitespace-separated tokens of a text without surrounding or doubled
\* whitespace; none for the empty text
TokensOf(text) == IF text = <<>> THEN <<>> ELSE Split(text)

RECURSIVE OutputsInOrder(_, _)
\* the elements ds of degradedWords are, in order, the outputs of the tokens
\* words[j], words[j + 1], ... of the call: nothing or, from level 7, a
\* placeholder for a dropped token; one element for any other token (the
\* token itself when kept, one of its two cuts when partial, a text within
\* the length garbleWord allows when garbled)
OutputsInOrder(ds, j) ==
    IF j > Len(words) THEN ds = <<>>
    ELSE IF actions[j] = "drop"
         THEN \/ OutputsInOrder(ds, j + 1)
              \/ /\ level >= 7
                 /\ ds # <<>>
                 /\ ds[1] = Placeholder
                 /\ OutputsInOrder(Tail(ds), j + 1)
         ELSE /\ ds # <<>>
              /\ CASE actions[j] = "keep" -> ds[1] = words[j]
                   [] actions[j] = "partial" ->
                        ds[1] \in OwnTexts("partial", words[j])
                   [] OTHER ->
                        /\ (ds[1] = <<>>) = (words[j] = <<>>)
                        /\ Len(ds[1]) <= Len(words[j])
                               + (Len(words[j]) * level + 19) \div 20
              /\ OutputsInOrder(Tail(ds), j + 1)

\* the elements of ds that are not the empty string
NonEmpty(ds) == SelectSeq(ds, LAMBDA t : t # <<>>)

\* C19: the degraded text simulate returns neither begins nor ends with
\* whitespace and has no two whitespace characters in a row; its tokens are
\* the non-empty elements of degradedWords, which are, in the order of the
\* input, the outputs of the tokens that were not dropped and the
\* placeholders of dropped ones, at most one per input token.
C19_DegradedIsNormalised ==
    pc = "returned" =>
        LET d == result.degraded
        IN  /\ d # <<>> => (d[1] \notin Whitespace /\ d[Len(d)] \notin Whitespace)
            /\ \A j \in 1..(Len(d) - 1) :
                   ~(d[j] \in Whitespace /\ d[j + 1] \in Whitespace)
            /\ TokensOf(d) = NonEmpty(degradedWords)
            /\ OutputsInOrder(degradedWords, 1)
            /\ Len(TokensOf(d)) <= Len(words)

\* C19 witness: at level 7 or above a call on two tokens dropped the first
\* with a placeholder and cut the second: '[...] 2...'.
C19_Witness ==
    /\ pc = "returned"
    /\ actions = <<"drop", "partial">>
    /\ result.degraded
           = Placeholder \o <<" ">> \o <<"2", ".", ".", ".">>

\* C20: no step after the construction changes what getLevel() and
\* getLanguage() return, the level being config.level clamped; and the
\* result a simulate call returns, whether or not an earlier call has
\* returned on the engine, is made of its own input and of the outputs its
\* own draws gave for the tokens of that input.
C20_CallsAreIndependent ==
    [][/\ pc # "new" =>
             /\ getLevel' = getLevel
             /\ getLanguage' = getLanguage
             /\ getLevel = ClampLevel(configLevel)
       /\ (pc = "loop" /\ pc' = "returned") =>
             /\ words = Split(input)
             /\ Len(actions) = Len(words)
             /\ OutputsInOrder(degradedWords, 1)
             /\ result'.original = input
             /\ result'.degraded = Degraded(degradedWords)
             /\ result'.lossPercentage
                    = LossPercentage(Split(input), Degraded(degradedWords))]_vars

\* C20 witness: on an engine on which an earlier call had returned, a call
\* on '24h' has kept its token and returned it.
C20_Witness ==
    /\ pc = "returned"
    /\ earlier
    /\ input = <<"2", "4", "h">>
    /\ actions = <<"keep">>
    /\ result = [original |-> input, degraded |-> input, lossPercentage |-> 0]

(***************************************************************************)
(* Claims C21 .. C27: the shell, the web UI and chatStream.                *)
(***************************************************************************)
\* the engines the running program holds: that of the shell, or those of
\* the sessions of the web UI
Engines ==
    IF program = "cli" THEN { state.simulator }
    ELSE IF program = "web" THEN { sessions[id].simulator : id \in DOMAIN sessions }
    ELSE {}

\* C21: every engine the shell or the web UI has constructed has one of
\* the languages en, it, agnostic, whatever LANGUAGE and the language of a
\* request are.
C21_EnginesHaveKnownLanguage == \A e \in Engines : e.language \in Languages

\* the language fields and the string table agree with the engine
Paired ==
    /\ program = "cli" =>
          /\ state.language = state.simulator.language
          /\ state.strings = getStrings(state.language)
    /\ program = "web" =>
          \A id \in DOMAIN sessions :
              sessions[id].language = sessions[id].simulator.language

\* the text after the command word of the line l
Argument(l, name) == Slice(Trim(l), Len(name) + 1)

\* l is the command `name` followed by an argument
IsCommand(l, name) == StartsWith(toLowerCase(Trim(l)), name \o <<" ">>)

LevelWord == <<"/", "l", "e", "v", "e", "l">>

LangWord == <<"/", "l", "a", "n", "g">>

\* l is a /level command whose argument parses to an integer from 1 to 10
ValidLevelLine(l) ==
    /\ IsCommand(l, LevelWord)
    /\ parseInt(Argument(l, LevelWord)).type = "number"
    /\ parseInt(Argument(l, LevelWord)).value \in 1..10

\* l is a /lang command whose argument is en, it or agnostic
ValidLangLine(l) ==
    /\ IsCommand(l, LangWord)
    /\ TagOf(toLowerCase(Trim(Argument(l, LangWord)))) \in Languages

\* the step reads the line line' at the prompt of the shell
ReadsLine == program = "cli" /\ cliPc = "prompt"

RejectedLine(l) ==
    /\ StartsWith(Trim(l), <<"/">>)
    /\ ~ValidLevelLine(l)
    /\ ~ValidLangLine(l)

\* C23: a line read at the prompt that is a /level command without a level
\* from 1 to 10, a /lang command without one of the three languages, or
\* any other line starting with '/', leaves the engine, the language, the
\* strings and the conversation history as they were, and neither calls
\* simulate nor sends a chat request.
C23_RejectedLinesChangeNothing ==
    [][(ReadsLine /\ RejectedLine(line')) => UNCHANGED <<state, passed, sent>>]_vars

\* C23 witness: after a turn that was answered, the shell has read
\* '/lang fr' and still holds the history of that turn and its engine.
C23_Witness ==
    /\ program = "cli"
    /\ cliPc = "prompt"
    /\ line = <<"/", "l", "a", "n", "g", " ", "f", "r">>
    /\ Len(passed) = 1
    /\ Len(sent) = 1
    /\ state.language = "en"
    /\ state.conversationHistory # <<>>
    /\ state.conversationHistory[Len(state.conversationHistory)].role = "assistant"

\* v is an integer from 1 to 10
InRange(v) == v.type = "number" /\ v.value \in 1..10

\* C24: the level of every engine the shell or the web UI holds is an
\* integer from 1 to 10, whatever DEAF_LEVEL and the level of a request
\* are.
C24_LevelInRange == \A e \in Engines : InRange(e.level)

\* the messages of h after the system message it may begin with
Turns(h) == IF h # <<>> /\ h[1].role = "system" THEN Tail(h) ELSE h

\* the turns of h are user, assistant, user, assistant, ...
Alternates(h) ==
    \A j \in DOMAIN Turns(h) :
        Turns(h)[j].role = IF j % 2 = 1 THEN "user" ELSE "assistant"

\* no request of the session id arrived while another one was awaiting
OneAtATime(id) ==
    \A r \in RequestIds : requests[r].session = id => ~requests[r].overlapped

\* C25: the conversation history of the shell, and that of a web session
\* whose requests came one at a time, alternates user and assistant turns
\* after the system message, also after a turn whose chat request failed.
C25_HistoryAlternates ==
    /\ program = "cli" => Alternates(state.conversationHistory)
    /\ program = "web" =>
          \A id \in DOMAIN sessions :
              OneAtATime(id) => Alternates(sessions[id].history)

\* no request of the session id has failed
NoneFailed(id) ==
    \A r \in RequestIds : requests[r].session = id => requests[r].pc # "failed"

\* C26: in a web session every assistant message directly follows the user
\* message of the same request, also when the requests of the session
\* overlap; and when none of them has failed, each chat call was given a
\* history that ends with the user message of its request after complete
\* user and assistant pairs only.
C26_AnswersFollowQuestions ==
    program = "web" =>
        /\ \A id \in DOMAIN sessions :
             \A j \in DOMAIN sessions[id].history :
                 sessions[id].history[j].role = "assistant" =>
                     /\ j > 1
                     /\ sessions[id].history[j - 1].role = "user"
                     /\ owners[id][j - 1] = owners[id][j]
        /\ \A r \in RequestIds :
             (requests[r].pc \in {"awaiting", "done"} /\ NoneFailed(requests[r].session)) =>
                 /\ Alternates(requests[r].seen)
                 /\ Len(Turns(requests[r].seen)) % 2 = 1

\* C27: when chatStream returns it has yielded, in order and once each, the
\* contents of the data lines of the whole body that carry one, the last
\* line included whether or not a line feed ends it, however the body was
\* cut into chunks.
C27_YieldsEveryDataLine ==
    streamPc = "done" => yielded = YieldsOf(SplitLines(body))

====
